---- MODULE Spec2Model ----
(***************************************************************************)
(* A model of the pyutil wrapper types: Option (option.py), Result         *)
(* (result.py) and Try (try.py).                                           *)
(*                                                                         *)
(* Python objects live in a heap: a sequence of records, the address of an *)
(* object being its index.  Objects are never removed, so an address is an *)
(* object identity.  A Python value is an int, a bool, None or a reference *)
(* to a heap object.  Every method is an operator from a heap, a receiver  *)
(* and arguments to a record holding the heap afterwards (the method may   *)
(* have allocated), the outcome (a returned value or a raised exception)   *)
(* and the number of calls made to caller-supplied functions.              *)
(***************************************************************************)
EXTENDS Integers, Sequences, FiniteSets, TLC

\* The bounds of the model: a call may allocate only while the client has
\* made fewer than MaxObjs objects (the heap's objects and its generators);
\* fewer than MaxMixedObjs when it uses option.py and result.py together.
MaxObjs == 3
MaxMixedObjs == 2

VARIABLES heap, last, iters, renv, tenv, tlast, budget

vars == <<heap, last, iters, renv, tenv, tlast, budget>>

----------------------------------------------------------------------------
(* Values and objects *)

IntV(n) == [t |-> "int", x |-> n]
BoolV(b) == [t |-> "bool", x |-> IF b THEN 1 ELSE 0]
NoneV == [t |-> "none", x |-> 0]
Ref(a) == [t |-> "ref", x |-> a]
\* The identity-based hash of an object that defines no __hash__ of its own.
IdHash(a) == [t |-> "idhash", x |-> a]

Obj(c, v, m) == [cls |-> c, val |-> v, msg |-> m]

OptionClasses == {"Just", "Nothing"}
ResultClasses == {"Success", "Failure"}
TryClasses == {"TrySuccess"}
ExcClasses == {"ValueError", "TypeError", "AttributeError", "KeyError"}

IsRef(v) == v.t = "ref"
IsNum(v) == v.t \in {"int", "bool"}
IsInstance(h, v, classes) == IsRef(v) /\ h[v.x].cls \in classes

\* bool(v): no class of the library defines __bool__ or __len__.
Truthy(v) == IF IsNum(v) THEN v.x # 0 ELSE IsRef(v)

Ret(v) == [kind |-> "ret", v |-> v]
Raise(e) == [kind |-> "raise", v |-> e]

\* The result of evaluating an expression.
R(h, out, calls) == [h |-> h, out |-> out, calls |-> calls]
Raised(r) == r.out.kind = "raise"
\* The same result, with n more calls of caller-supplied functions counted.
After(n, r) == [r EXCEPT !.calls = @ + n]

\* raise cls(msg)
RaiseNew(h, c, m, calls) ==
    LET h2 == Append(h, Obj(c, NoneV, m))
    IN  R(h2, Raise(Ref(Len(h2))), calls)

\* cls(v), for a class whose constructor cannot fail
New(h, c, v, calls) ==
    LET h2 == Append(h, Obj(c, v, ""))
    IN  R(h2, Ret(Ref(Len(h2))), calls)

----------------------------------------------------------------------------
(* Caller-supplied functions: the arguments p and f of the combinators.    *)

Preds == {"pos", "always", "never"}
Fns1 == {"id", "const0", "boom"}
Fns0 == {"const0", "boom"}

Call(h, f, x) ==
    CASE f = "id" -> R(h, Ret(x), 1)
      [] f = "const0" -> R(h, Ret(IntV(0)), 1)
      [] f = "always" -> R(h, Ret(BoolV(TRUE)), 1)
      [] f = "never" -> R(h, Ret(BoolV(FALSE)), 1)
      [] f = "pos" ->
            IF IsNum(x) THEN R(h, Ret(BoolV(x.x > 0)), 1)
            ELSE RaiseNew(h, "TypeError", "'>' not supported", 1)
      [] f = "just" -> New(h, "Just", x, 1)
      [] f = "success" -> New(h, "Success", x, 1)
      [] f = "trysuccess" -> New(h, "TrySuccess", x, 1)
      [] f = "boom" -> RaiseNew(h, "KeyError", "", 1)

----------------------------------------------------------------------------
(* option.py *)

Just_empty(h, s) == FALSE
Nothing_empty(h, s) == TRUE
Option_empty(h, s) ==
    IF h[s].cls = "Just" THEN Just_empty(h, s) ELSE Nothing_empty(h, s)
Option_defined(h, s) == ~Option_empty(h, s)

Just_value(h, s) == R(h, Ret(h[s].val), 0)
Nothing_value(h, s) ==
    RaiseNew(h, "ValueError", "Cannot get value from Nothing", 0)
Option_value(h, s) ==
    IF h[s].cls = "Just" THEN Just_value(h, s) ELSE Nothing_value(h, s)

Option_filter(h, s, p) ==
    IF ~Option_defined(h, s) THEN R(h, Ret(Ref(s)), 0)
    ELSE LET v == Option_value(h, s)
         IN  IF Raised(v) THEN v
             ELSE LET c == Call(v.h, p, v.out.v)
                  IN  IF Raised(c) THEN c
                      ELSE IF Truthy(c.out.v) THEN R(c.h, Ret(Ref(s)), c.calls)
                      ELSE New(c.h, "Nothing", NoneV, c.calls)

Option_flat_map(h, s, f) ==
    IF Option_defined(h, s)
    THEN LET v == Option_value(h, s)
         IN  IF Raised(v) THEN v ELSE Call(v.h, f, v.out.v)
    ELSE R(h, Ret(Ref(s)), 0)

\* A variant of Option.flatten: it unwraps one level, where the code goes on
\* to flatten what it unwrapped.
Option_flatten_one_level(h, s) ==
    IF Option_defined(h, s) /\ IsInstance(h, h[s].val, OptionClasses)
    THEN Option_value(h, s)
    ELSE R(h, Ret(Ref(s)), 0)

RECURSIVE Option_flatten(_, _)
Option_flatten(h, s) ==
    IF Option_defined(h, s)
    THEN LET v == Option_value(h, s)
         IN  IF Raised(v) THEN v
             ELSE IF IsInstance(v.h, v.out.v, OptionClasses)
                  THEN Option_flatten(v.h, v.out.v.x)
                  ELSE R(h, Ret(Ref(s)), 0)
    ELSE R(h, Ret(Ref(s)), 0)

Option_get_or_default(h, s, default) ==
    IF Option_defined(h, s) THEN Option_value(h, s) ELSE R(h, Ret(default), 0)

Option_get_or_else(h, s, f) ==
    IF Option_defined(h, s) THEN Option_value(h, s) ELSE Call(h, f, NoneV)

\* A variant of Option.map: it wraps the value again and leaves f out.
Option_map_drops_f(h, s, f) ==
    IF Option_defined(h, s)
    THEN LET v == Option_value(h, s)
         IN  IF Raised(v) THEN v ELSE New(v.h, "Just", v.out.v, 0)
    ELSE R(h, Ret(Ref(s)), 0)

\* A variant of Option.map: it stores f's value in the receiver and returns
\* the receiver, where the code makes a new Just.
Option_map_in_place(h, s, f) ==
    IF Option_defined(h, s)
    THEN LET v == Option_value(h, s)
         IN  IF Raised(v) THEN v
             ELSE LET c == Call(v.h, f, v.out.v)
                  IN  IF Raised(c) THEN c
                      ELSE R([c.h EXCEPT ![s].val = c.out.v], Ret(Ref(s)), c.calls)
    ELSE R(h, Ret(Ref(s)), 0)

Option_map(h, s, f) ==
    IF Option_defined(h, s)
    THEN LET v == Option_value(h, s)
         IN  IF Raised(v) THEN v
             ELSE LET c == Call(v.h, f, v.out.v)
                  IN  IF Raised(c) THEN c
                      ELSE New(c.h, "Just", c.out.v, c.calls)
    ELSE R(h, Ret(Ref(s)), 0)

Option_or_else(h, s, opt) ==
    IF Option_defined(h, s) THEN R(h, Ret(Ref(s)), 0) ELSE R(h, Ret(opt), 0)

----------------------------------------------------------------------------
(* result.py: the variants *)

Success_failed(h, s) == FALSE
Failure_failed(h, s) == TRUE
Result_failed(h, s) ==
    IF h[s].cls = "Success" THEN Success_failed(h, s) ELSE Failure_failed(h, s)
Result_success(h, s) == ~Result_failed(h, s)

Success_error(h, s) ==
    RaiseNew(h, "TypeError", "Cannot retrieve error from a Success", 0)
Failure_error(h, s) == R(h, Ret(h[s].val), 0)
Result_error(h, s) ==
    IF h[s].cls = "Success" THEN Success_error(h, s) ELSE Failure_error(h, s)

Success_result(h, s) == R(h, Ret(h[s].val), 0)
\* A variant of Failure.result: it raises a wrong-variant error of its own,
\* as Success.error does, where the code raises the stored error.
Failure_result_wrong_variant(h, s) ==
    RaiseNew(h, "TypeError", "Cannot retrieve result from a Failure", 0)

Failure_result(h, s) == R(h, Raise(h[s].val), 0)
Result_result(h, s) ==
    IF h[s].cls = "Success" THEN Success_result(h, s) ELSE Failure_result(h, s)

Success_init(h, result) == New(h, "Success", result, 0)

Failure_init(h, error) ==
    IF ~IsInstance(h, error, ExcClasses)
    THEN RaiseNew(h, "TypeError", "Failure must be created with an Exception", 0)
    ELSE New(h, "Failure", error, 0)

----------------------------------------------------------------------------
(* try.py: the variants.  Failure is a function, not a class: its body     *)
(* defines local functions and ends, so that a call returns None whatever  *)
(* its argument is.                                                        *)

TrySuccess_failed(h, s) == FALSE
TrySuccess_error(h, s) ==
    RaiseNew(h, "TypeError", "Cannot retrieve error from a Success", 0)
TrySuccess_result(h, s) == R(h, Ret(h[s].val), 0)
TrySuccess_init(h, result) == New(h, "TrySuccess", result, 0)

Try_Failure(h, error) == R(h, Ret(NoneV), 0)

Try_success(h, s) == ~TrySuccess_failed(h, s)

----------------------------------------------------------------------------
(* Python's == and hash() over the values of the model *)

RECURSIVE PyEq(_, _, _)
RECURSIVE Option_eq(_, _, _)
RECURSIVE Result_eq(_, _, _)

\* A variant of Result.__eq__: it compares the results whatever the variant,
\* where the code compares the errors of two failures.
Result_eq_by_result(h, s, other) ==
    IF ~IsInstance(h, other, ResultClasses) THEN R(h, Ret(BoolV(FALSE)), 0)
    ELSE IF Result_failed(h, s) # Result_failed(h, other.x)
         THEN R(h, Ret(BoolV(FALSE)), 0)
    ELSE LET a == Result_result(h, s)
         IN  IF Raised(a) THEN a
             ELSE LET b == Result_result(a.h, other.x)
                  IN  IF Raised(b) THEN b
                      ELSE PyEq(b.h, a.out.v, b.out.v)

Option_eq(h, s, other) ==
    IF ~IsInstance(h, other, OptionClasses) THEN R(h, Ret(BoolV(FALSE)), 0)
    ELSE IF Option_empty(h, s) # Option_empty(h, other.x)
         THEN R(h, Ret(BoolV(FALSE)), 0)
    ELSE IF Option_defined(h, s)
         THEN LET a == Option_value(h, s)
              IN  IF Raised(a) THEN a
                  ELSE LET b == Option_value(a.h, other.x)
                       IN  IF Raised(b) THEN b
                           ELSE PyEq(b.h, a.out.v, b.out.v)
    ELSE R(h, Ret(BoolV(TRUE)), 0)

Result_eq(h, s, other) ==
    IF ~IsInstance(h, other, ResultClasses) THEN R(h, Ret(BoolV(FALSE)), 0)
    ELSE IF Result_failed(h, s) # Result_failed(h, other.x)
         THEN R(h, Ret(BoolV(FALSE)), 0)
    ELSE IF Result_success(h, s)
         THEN LET a == Result_result(h, s)
              IN  IF Raised(a) THEN a
                  ELSE LET b == Result_result(a.h, other.x)
                       IN  IF Raised(b) THEN b
                           ELSE PyEq(b.h, a.out.v, b.out.v)
    ELSE LET a == Result_error(h, s)
         IN  IF Raised(a) THEN a
             ELSE LET b == Result_error(a.h, other.x)
                  IN  IF Raised(b) THEN b
                      ELSE PyEq(b.h, a.out.v, b.out.v)

\* a == b: the __eq__ of a's class, then the reflected one of b's class;
\* ints and bools compare as numbers, every other object by identity.
PyEq(h, a, b) ==
    IF IsInstance(h, a, OptionClasses) THEN Option_eq(h, a.x, b)
    ELSE IF IsInstance(h, a, ResultClasses) THEN Result_eq(h, a.x, b)
    ELSE IF IsInstance(h, b, OptionClasses) THEN Option_eq(h, b.x, a)
    ELSE IF IsInstance(h, b, ResultClasses) THEN Result_eq(h, b.x, a)
    ELSE IF IsNum(a) /\ IsNum(b) THEN R(h, Ret(BoolV(a.x = b.x)), 0)
    ELSE R(h, Ret(BoolV(a = b)), 0)

\* not r, for the result r of an expression
PyNot(r) == IF Raised(r) THEN r ELSE R(r.h, Ret(BoolV(~Truthy(r.out.v))), r.calls)

Option_ne(h, s, other) == PyNot(Option_eq(h, s, other))
Result_ne(h, s, other) == PyNot(Result_eq(h, s, other))

RECURSIVE PyHash(_, _)
RECURSIVE Option_hash(_, _)
RECURSIVE Result_hash(_, _)

Option_hash(h, s) ==
    IF Option_defined(h, s)
    THEN LET v == Option_value(h, s)
         IN  IF Raised(v) THEN v ELSE PyHash(v.h, v.out.v)
    ELSE R(h, Ret(IntV(0)), 0)

Result_hash(h, s) ==
    IF Result_success(h, s)
    THEN LET v == Result_result(h, s)
         IN  IF Raised(v) THEN v ELSE PyHash(v.h, v.out.v)
    ELSE LET e == Result_error(h, s)
         IN  IF Raised(e) THEN e ELSE PyHash(e.h, e.out.v)

PyHash(h, v) ==
    IF IsInstance(h, v, OptionClasses) THEN Option_hash(h, v.x)
    ELSE IF IsInstance(h, v, ResultClasses) THEN Result_hash(h, v.x)
    ELSE IF IsNum(v) THEN R(h, Ret(IntV(v.x)), 0)
    ELSE R(h, Ret(IdHash(v.x)), 0)

----------------------------------------------------------------------------
(* result.py: the combinators *)

\* A variant of Result.filter: a failure is returned as it is, as
\* Option.filter returns an empty option, where the code replaces it.
Result_filter_keeps_failure(h, s, p) ==
    IF Result_failed(h, s) THEN R(h, Ret(Ref(s)), 0)
    ELSE LET v == Result_result(h, s)
         IN  LET c == Call(v.h, p, v.out.v)
             IN  IF Raised(c) THEN c
                 ELSE IF Truthy(c.out.v) THEN R(c.h, Ret(Ref(s)), c.calls)
                 ELSE LET e == Append(c.h, Obj("ValueError", NoneV, "Predicate failed"))
                      IN  After(c.calls, Failure_init(e, Ref(Len(e))))

Result_filter(h, s, p) ==
    LET fail == LET e == Append(h, Obj("ValueError", NoneV, "Predicate failed"))
                IN  Failure_init(e, Ref(Len(e)))
    IN  IF Result_success(h, s)
        THEN LET v == Result_result(h, s)
             IN  IF Raised(v) THEN v
                 ELSE LET c == Call(v.h, p, v.out.v)
                      IN  IF Raised(c) THEN c
                          ELSE IF Truthy(c.out.v)
                               THEN R(c.h, Ret(Ref(s)), c.calls)
                               ELSE After(c.calls, fail)
        ELSE fail

Result_flat_map(h, s, f) ==
    IF Result_success(h, s)
    THEN LET v == Result_result(h, s)
         IN  IF Raised(v) THEN v ELSE Call(v.h, f, v.out.v)
    ELSE R(h, Ret(Ref(s)), 0)

RECURSIVE Result_flatten(_, _)
Result_flatten(h, s) ==
    IF Result_success(h, s)
    THEN LET v == Result_result(h, s)
         IN  IF Raised(v) THEN v
             ELSE IF IsInstance(v.h, v.out.v, ResultClasses)
                  THEN Result_flatten(v.h, v.out.v.x)
                  ELSE R(h, Ret(Ref(s)), 0)
    ELSE R(h, Ret(Ref(s)), 0)

Result_get_or_default(h, s, default) ==
    IF Result_success(h, s) THEN Result_result(h, s) ELSE R(h, Ret(default), 0)

Result_get_or_else(h, s, f) ==
    IF Result_success(h, s) THEN Result_result(h, s) ELSE Call(h, f, NoneV)

Result_map(h, s, f) ==
    IF Result_success(h, s)
    THEN LET v == Result_result(h, s)
         IN  IF Raised(v) THEN v
             ELSE LET c == Call(v.h, f, v.out.v)
                  IN  IF Raised(c) THEN c
                      ELSE After(c.calls, Success_init(c.h, c.out.v))
    ELSE R(h, Ret(Ref(s)), 0)

Result_or_else(h, s, opt) ==
    IF Result_success(h, s) THEN R(h, Ret(Ref(s)), 0) ELSE R(h, Ret(opt), 0)

Result_recover(h, s, f) ==
    IF Result_failed(h, s)
    THEN LET e == Result_error(h, s)
         IN  IF Raised(e) THEN e
             ELSE LET c == Call(e.h, f, e.out.v)
                  IN  IF Raised(c) THEN c
                      ELSE After(c.calls, Success_init(c.h, c.out.v))
    ELSE R(h, Ret(Ref(s)), 0)

Result_to_option(h, s) ==
    IF Result_success(h, s)
    THEN LET v == Result_result(h, s)
         IN  IF Raised(v) THEN v ELSE New(v.h, "Just", v.out.v, 0)
    ELSE New(h, "Nothing", NoneV, 0)

----------------------------------------------------------------------------
(* try.py: the combinators.  Success is the only subclass of Try there is, *)
(* so every receiver is one.  Try defines no __eq__ and no __hash__:       *)
(* object's are used, which go by identity.                                *)

Try_failed(h, s) == TrySuccess_failed(h, s)
Try_error(h, s) == TrySuccess_error(h, s)
Try_result(h, s) == TrySuccess_result(h, s)

Try_filter(h, s, p) ==
    LET fail == LET e == Append(h, Obj("ValueError", NoneV, "Predicate failed"))
                IN  Try_Failure(e, Ref(Len(e)))
    IN  IF Try_success(h, s)
        THEN LET v == Try_result(h, s)
             IN  IF Raised(v) THEN v
                 ELSE LET c == Call(v.h, p, v.out.v)
                      IN  IF Raised(c) THEN c
                          ELSE IF Truthy(c.out.v)
                               THEN R(c.h, Ret(Ref(s)), c.calls)
                               ELSE After(c.calls, fail)
        ELSE fail

Try_flat_map(h, s, f) ==
    IF Try_success(h, s)
    THEN LET v == Try_result(h, s)
         IN  IF Raised(v) THEN v ELSE Call(v.h, f, v.out.v)
    ELSE R(h, Ret(Ref(s)), 0)

RECURSIVE Try_flatten(_, _)
Try_flatten(h, s) ==
    IF Try_success(h, s)
    THEN LET v == Try_result(h, s)
         IN  IF Raised(v) THEN v
             ELSE IF IsInstance(v.h, v.out.v, TryClasses)
                  THEN Try_flatten(v.h, v.out.v.x)
                  ELSE R(h, Ret(Ref(s)), 0)
    ELSE R(h, Ret(Ref(s)), 0)

Try_get_or_default(h, s, default) ==
    IF Try_success(h, s) THEN Try_result(h, s) ELSE R(h, Ret(default), 0)

Try_get_or_else(h, s, f) ==
    IF Try_success(h, s) THEN Try_result(h, s) ELSE Call(h, f, NoneV)

Try_map(h, s, f) ==
    IF Try_success(h, s)
    THEN LET v == Try_result(h, s)
         IN  IF Raised(v) THEN v
             ELSE LET c == Call(v.h, f, v.out.v)
                  IN  IF Raised(c) THEN c
                      ELSE After(c.calls, TrySuccess_init(c.h, c.out.v))
    ELSE R(h, Ret(Ref(s)), 0)

Try_or_else(h, s, opt) ==
    IF Try_success(h, s) THEN R(h, Ret(Ref(s)), 0) ELSE R(h, Ret(opt), 0)

Try_recover(h, s, f) ==
    IF Try_failed(h, s)
    THEN LET e == Try_error(h, s)
         IN  IF Raised(e) THEN e
             ELSE LET c == Call(e.h, f, e.out.v)
                  IN  IF Raised(c) THEN c
                      ELSE After(c.calls, TrySuccess_init(c.h, c.out.v))
    ELSE R(h, Ret(Ref(s)), 0)

Try_to_option(h, s) ==
    IF Try_success(h, s)
    THEN LET v == Try_result(h, s)
         IN  IF Raised(v) THEN v ELSE New(v.h, "Just", v.out.v, 0)
    ELSE New(h, "Nothing", NoneV, 0)

----------------------------------------------------------------------------
(* Generators: __iter__ of Option and of Result.  A call of __iter__ makes *)
(* a generator object, at the start of the body; next() runs it to the     *)
(* next yield or to its end.                                               *)

Stop == [kind |-> "stop", v |-> NoneV]

NewGen(a) == [obj |-> a, pc |-> "start", out |-> <<>>]

\* A variant of Option.__iter__: it yields the value without asking whether
\* there is one.
Option_iter_unguarded(h, g) ==
    IF g.pc = "start"
    THEN LET v == Option_value(h, g.obj)
         IN  IF Raised(v) THEN [g |-> [g EXCEPT !.pc = "done"], r |-> v]
             ELSE [g |-> [g EXCEPT !.pc = "yielded", !.out = Append(@, v.out.v)],
                   r |-> v]
    ELSE [g |-> [g EXCEPT !.pc = "done"], r |-> R(h, Stop, 0)]

\* One next() of a generator g over the body of Option.__iter__:
\* the generator afterwards and what next() gave.
Option_iter(h, g) ==
    IF g.pc = "start" /\ Option_defined(h, g.obj)
    THEN LET v == Option_value(h, g.obj)
         IN  IF Raised(v) THEN [g |-> [g EXCEPT !.pc = "done"], r |-> v]
             ELSE [g |-> [g EXCEPT !.pc = "yielded", !.out = Append(@, v.out.v)],
                   r |-> v]
    ELSE [g |-> [g EXCEPT !.pc = "done"], r |-> R(h, Stop, 0)]

Result_iter(h, g) ==
    IF g.pc = "start" /\ Result_success(h, g.obj)
    THEN LET v == Result_result(h, g.obj)
         IN  IF Raised(v) THEN [g |-> [g EXCEPT !.pc = "done"], r |-> v]
             ELSE [g |-> [g EXCEPT !.pc = "yielded", !.out = Append(@, v.out.v)],
                   r |-> v]
    ELSE [g |-> [g EXCEPT !.pc = "done"], r |-> R(h, Stop, 0)]

Try_iter(h, g) ==
    IF g.pc = "start" /\ Try_success(h, g.obj)
    THEN LET v == Try_result(h, g.obj)
         IN  IF Raised(v) THEN [g |-> [g EXCEPT !.pc = "done"], r |-> v]
             ELSE [g |-> [g EXCEPT !.pc = "yielded", !.out = Append(@, v.out.v)],
                   r |-> v]
    ELSE [g |-> [g EXCEPT !.pc = "done"], r |-> R(h, Stop, 0)]

\* list(w): next() of a generator until it ends or raises.
RECURSIVE Option_list(_, _)
Option_list(h, g) ==
    LET n == Option_iter(h, g)
    IN  IF Raised(n.r) THEN n
        ELSE IF n.r.out = Stop THEN [g |-> n.g, r |-> R(n.r.h, Ret(NoneV), 0)]
        ELSE Option_list(n.r.h, n.g)

RECURSIVE Result_list(_, _)
Result_list(h, g) ==
    LET n == Result_iter(h, g)
    IN  IF Raised(n.r) THEN n
        ELSE IF n.r.out = Stop THEN [g |-> n.g, r |-> R(n.r.h, Ret(NoneV), 0)]
        ELSE Result_list(n.r.h, n.g)

RECURSIVE Try_list(_, _)
Try_list(h, g) ==
    LET n == Try_iter(h, g)
    IN  IF Raised(n.r) THEN n
        ELSE IF n.r.out = Stop THEN [g |-> n.g, r |-> R(n.r.h, Ret(NoneV), 0)]
        ELSE Try_list(n.r.h, n.g)

----------------------------------------------------------------------------
(* The state: the heap, the last call made and what it gave, and the       *)
(* generators the client holds.                                            *)

\* The int literals of the client.
Ints == {IntV(-5), IntV(5)}
Addrs(h) == 1..Len(h)
Vals(h) == Ints \cup {Ref(a) : a \in Addrs(h)}
Options(h) == {a \in Addrs(h) : h[a].cls \in OptionClasses}
Results(h) == {a \in Addrs(h) : h[a].cls \in ResultClasses}

NoCall == [op |-> "init", self |-> 0, fn |-> "", arg |-> NoneV,
           out |-> Ret(NoneV), calls |-> 0, pre |-> 0, items |-> <<>>]

Start(n) ==
    /\ heap = <<>>
    /\ last = NoCall
    /\ iters = <<>>
    /\ renv = <<>>
    /\ tenv = <<>>
    /\ tlast = NoCall
    /\ budget = n

Init == Start(MaxObjs)

\* A call that allocates needs room; budget is the room left.
Room == budget > 0
Spend(h) == budget' = budget - (Len(h) - Len(heap))

\* What the client sees of a call: op of receiver s with function fn and
\* argument arg gave r, and the elements items when op is an iteration.
\* pre is the size of the heap before the call.
Seen(op, s, fn, arg, r, items) ==
    [op |-> op, self |-> s, fn |-> fn, arg |-> arg, out |-> r.out,
     calls |-> r.calls, pre |-> Len(heap), items |-> items]

\* The call op of receiver s with function fn and argument arg gave r.
Do(op, s, fn, arg, r) ==
    /\ r.h = heap \/ Room
    /\ heap' = r.h
    /\ Spend(r.h)
    /\ last' = Seen(op, s, fn, arg, r, <<>>)
    /\ UNCHANGED <<iters, renv, tenv, tlast>>

\* list(w): a fresh generator d.g run to its end gave d.r.
DoList(s, d) ==
    /\ d.r.h = heap \/ Room
    /\ heap' = d.r.h
    /\ Spend(d.r.h)
    /\ last' = Seen("list", s, "", NoneV, d.r, d.g.out)
    /\ UNCHANGED <<iters, renv, tenv, tlast>>

Just_init(h, value) == New(h, "Just", value, 0)
Nothing_init(h) == New(h, "Nothing", NoneV, 0)

MkJust == \E v \in Vals(heap) : Do("Just", 0, "", v, Just_init(heap, v))
MkNothing == Do("Nothing", 0, "", NoneV, Nothing_init(heap))

OptEmpty ==
    \E s \in Options(heap) :
        Do("empty", s, "", NoneV, R(heap, Ret(BoolV(Option_empty(heap, s))), 0))
OptDefined ==
    \E s \in Options(heap) :
        Do("defined", s, "", NoneV, R(heap, Ret(BoolV(Option_defined(heap, s))), 0))
OptValue ==
    \E s \in Options(heap) : Do("value", s, "", NoneV, Option_value(heap, s))
OptFilter ==
    \E s \in Options(heap), p \in Preds :
        Do("filter", s, p, NoneV, Option_filter(heap, s, p))
OptFlatMap ==
    \E s \in Options(heap), f \in Fns1 \cup {"just"} :
        Do("flat_map", s, f, NoneV, Option_flat_map(heap, s, f))
OptFlatten ==
    \E s \in Options(heap) : Do("flatten", s, "", NoneV, Option_flatten(heap, s))
OptGetOrDefault ==
    \E s \in Options(heap), d \in Ints :
        Do("get_or_default", s, "", d, Option_get_or_default(heap, s, d))
OptGetOrElse ==
    \E s \in Options(heap), f \in Fns0 :
        Do("get_or_else", s, f, NoneV, Option_get_or_else(heap, s, f))
OptMap ==
    \E s \in Options(heap), f \in Fns1 :
        Do("map", s, f, NoneV, Option_map(heap, s, f))
OptOrElse ==
    \E s \in Options(heap), o \in Options(heap) :
        Do("or_else", s, "", Ref(o), Option_or_else(heap, s, Ref(o)))
OptEq ==
    \E s \in Options(heap), o \in Vals(heap) :
        Do("eq", s, "", o, Option_eq(heap, s, o))
OptNe ==
    \E s \in Options(heap), o \in Vals(heap) :
        Do("ne", s, "", o, Option_ne(heap, s, o))
OptHash ==
    \E s \in Options(heap) : Do("hash", s, "", NoneV, Option_hash(heap, s))
OptList ==
    \E s \in Options(heap) : DoList(s, Option_list(heap, NewGen(s)))

NextOpt ==
    \/ MkJust \/ MkNothing
    \/ OptEmpty \/ OptDefined \/ OptValue \/ OptFilter \/ OptFlatMap
    \/ OptFlatten \/ OptGetOrDefault \/ OptGetOrElse \/ OptMap \/ OptOrElse
    \/ OptEq \/ OptNe \/ OptHash \/ OptList

SpecOpt == Init /\ [][NextOpt]_vars

----------------------------------------------------------------------------
(* The client of result.py *)

Exception_init(h) == New(h, "KeyError", NoneV, 0)

MkException == Do("Exception", 0, "", NoneV, Exception_init(heap))
MkSuccess == \E v \in Vals(heap) : Do("Success", 0, "", v, Success_init(heap, v))
MkFailure == \E v \in Vals(heap) : Do("Failure", 0, "", v, Failure_init(heap, v))

ResFailed ==
    \E s \in Results(heap) :
        Do("failed", s, "", NoneV, R(heap, Ret(BoolV(Result_failed(heap, s))), 0))
ResSuccess ==
    \E s \in Results(heap) :
        Do("success", s, "", NoneV, R(heap, Ret(BoolV(Result_success(heap, s))), 0))
ResError ==
    \E s \in Results(heap) : Do("error", s, "", NoneV, Result_error(heap, s))
ResResult ==
    \E s \in Results(heap) : Do("result", s, "", NoneV, Result_result(heap, s))
ResFilter ==
    \E s \in Results(heap), p \in Preds :
        Do("filter", s, p, NoneV, Result_filter(heap, s, p))
ResFlatMap ==
    \E s \in Results(heap), f \in Fns1 \cup {"success"} :
        Do("flat_map", s, f, NoneV, Result_flat_map(heap, s, f))
ResFlatten ==
    \E s \in Results(heap) : Do("flatten", s, "", NoneV, Result_flatten(heap, s))
ResGetOrDefault ==
    \E s \in Results(heap), d \in Ints :
        Do("get_or_default", s, "", d, Result_get_or_default(heap, s, d))
ResGetOrElse ==
    \E s \in Results(heap), f \in Fns0 :
        Do("get_or_else", s, f, NoneV, Result_get_or_else(heap, s, f))
ResMap ==
    \E s \in Results(heap), f \in Fns1 :
        Do("map", s, f, NoneV, Result_map(heap, s, f))
ResOrElse ==
    \E s \in Results(heap), o \in Results(heap) :
        Do("or_else", s, "", Ref(o), Result_or_else(heap, s, Ref(o)))
ResRecover ==
    \E s \in Results(heap), f \in Fns1 :
        Do("recover", s, f, NoneV, Result_recover(heap, s, f))
ResToOption ==
    \E s \in Results(heap) : Do("to_option", s, "", NoneV, Result_to_option(heap, s))
ResEq ==
    \E s \in Results(heap), o \in Vals(heap) :
        Do("eq", s, "", o, Result_eq(heap, s, o))
ResNe ==
    \E s \in Results(heap), o \in Vals(heap) :
        Do("ne", s, "", o, Result_ne(heap, s, o))
ResHash ==
    \E s \in Results(heap) : Do("hash", s, "", NoneV, Result_hash(heap, s))
ResList ==
    \E s \in Results(heap) : DoList(s, Result_list(heap, NewGen(s)))

NextRes ==
    \/ MkException \/ MkSuccess \/ MkFailure
    \/ ResFailed \/ ResSuccess \/ ResError \/ ResResult \/ ResFilter
    \/ ResFlatMap \/ ResFlatten \/ ResGetOrDefault \/ ResGetOrElse \/ ResMap
    \/ ResOrElse \/ ResRecover \/ ResToOption \/ ResEq \/ ResNe \/ ResHash
    \/ ResList

SpecRes == Init /\ [][NextRes]_vars

----------------------------------------------------------------------------
(* The client's generators *)

Iterables(h) == Options(h) \cup Results(h)

\* iter(w): a fresh generator over w
NewIter ==
    /\ Room
    /\ \E a \in Iterables(heap) : iters' = Append(iters, NewGen(a))
    /\ budget' = budget - 1
    /\ UNCHANGED <<heap, last, renv, tenv, tlast>>

\* next(g) of the i-th generator
IterNext ==
    \E i \in 1..Len(iters) :
        LET g == iters[i]
            n == IF heap[g.obj].cls \in OptionClasses
                 THEN Option_iter(heap, g) ELSE Result_iter(heap, g)
        IN  /\ n.r.h = heap \/ Room
            /\ iters' = [iters EXCEPT ![i] = n.g]
            /\ heap' = n.r.h
            /\ Spend(n.r.h)
            /\ last' = Seen("next", g.obj, "", IntV(i), n.r, n.g.out)
            /\ UNCHANGED <<renv, tenv, tlast>>

NextIter ==
    \/ MkJust \/ MkNothing \/ MkException \/ MkSuccess \/ MkFailure
    \/ NewIter \/ IterNext

SpecIter == Init /\ [][NextIter]_vars

\* The client of option.py and result.py together.
NextAll == NextOpt \/ NextRes \/ NewIter \/ IterNext

SpecAll == Start(MaxMixedObjs) /\ [][NextAll]_vars

----------------------------------------------------------------------------
(* The client of result.py and try.py side by side: one script, run once   *)
(* against each module.  renv[i] and tenv[i] are what the i-th binding of  *)
(* the script holds in the run against result.py and in the run against    *)
(* try.py; last and tlast are what the last call gave in each run.  The    *)
(* two runs share the heap, and the exceptions the script itself makes.    *)

\* An argument of the script: an int literal or an earlier binding.
Var(i) == [t |-> "var", x |-> i]
ArgSel == Ints \cup {Var(i) : i \in 1..Len(renv)}
RArg(a) == IF a.t = "var" THEN renv[a.x] ELSE a
TArg(a) == IF a.t = "var" THEN tenv[a.x] ELSE a

\* The bindings that hold a Result in the run against result.py.
RRecv == {i \in 1..Len(renv) : IsInstance(heap, renv[i], ResultClasses)}

SelfOf(v) == IF IsRef(v) THEN v.x ELSE 0

\* A method of Try called on recv: an object that is no Try has none.
OnTry(h, recv, r) ==
    IF IsInstance(h, recv, TryClasses) THEN r
    ELSE RaiseNew(h, "AttributeError", "object has no such attribute", 0)

\* One step of the script: r in the run against result.py, then t in the
\* run against try.py.  What a step that allocated returns is bound.
Pair(op, rs, tv, fn, ra, ta, r, t, ri, ti) ==
    /\ t.h = heap \/ Room
    /\ heap' = t.h
    /\ Spend(t.h)
    /\ last' = Seen(op, rs, fn, ra, r, ri)
    /\ tlast' = Seen(op, SelfOf(tv), fn, ta, t, ti)
    /\ IF t.h # heap /\ ~Raised(r) /\ ~Raised(t)
       THEN renv' = Append(renv, r.out.v) /\ tenv' = Append(tenv, t.out.v)
       ELSE UNCHANGED <<renv, tenv>>
    /\ UNCHANGED iters

PairException ==
    LET r == Exception_init(heap)
    IN  Pair("Exception", 0, NoneV, "", NoneV, NoneV, r, r, <<>>, <<>>)

PairSuccess ==
    \E a \in ArgSel :
        LET r == Success_init(heap, RArg(a))
            t == TrySuccess_init(r.h, TArg(a))
        IN  Pair("Success", 0, NoneV, "", RArg(a), TArg(a), r, t, <<>>, <<>>)

PairFailure ==
    \E a \in ArgSel :
        LET r == Failure_init(heap, RArg(a))
            t == Try_Failure(r.h, TArg(a))
        IN  Pair("Failure", 0, NoneV, "", RArg(a), TArg(a), r, t, <<>>, <<>>)

PairIsFailed ==
    \E i \in RRecv :
        LET s == renv[i].x
            tv == tenv[i]
            r == R(heap, Ret(BoolV(Result_failed(heap, s))), 0)
            t == OnTry(r.h, tv, R(r.h, Ret(BoolV(Try_failed(r.h, tv.x))), 0))
        IN  Pair("failed", s, tv, "", NoneV, NoneV, r, t, <<>>, <<>>)

PairIsSuccess ==
    \E i \in RRecv :
        LET s == renv[i].x
            tv == tenv[i]
            r == R(heap, Ret(BoolV(Result_success(heap, s))), 0)
            t == OnTry(r.h, tv, R(r.h, Ret(BoolV(Try_success(r.h, tv.x))), 0))
        IN  Pair("success", s, tv, "", NoneV, NoneV, r, t, <<>>, <<>>)

PairError ==
    \E i \in RRecv :
        LET s == renv[i].x
            tv == tenv[i]
            r == Result_error(heap, s)
            t == OnTry(r.h, tv, Try_error(r.h, tv.x))
        IN  Pair("error", s, tv, "", NoneV, NoneV, r, t, <<>>, <<>>)

PairResult ==
    \E i \in RRecv :
        LET s == renv[i].x
            tv == tenv[i]
            r == Result_result(heap, s)
            t == OnTry(r.h, tv, Try_result(r.h, tv.x))
        IN  Pair("result", s, tv, "", NoneV, NoneV, r, t, <<>>, <<>>)

PairFlatten ==
    \E i \in RRecv :
        LET s == renv[i].x
            tv == tenv[i]
            r == Result_flatten(heap, s)
            t == OnTry(r.h, tv, Try_flatten(r.h, tv.x))
        IN  Pair("flatten", s, tv, "", NoneV, NoneV, r, t, <<>>, <<>>)

PairToOption ==
    \E i \in RRecv :
        LET s == renv[i].x
            tv == tenv[i]
            r == Result_to_option(heap, s)
            t == OnTry(r.h, tv, Try_to_option(r.h, tv.x))
        IN  Pair("to_option", s, tv, "", NoneV, NoneV, r, t, <<>>, <<>>)

PairFilter ==
    \E i \in RRecv, f \in Preds :
        LET s == renv[i].x
            tv == tenv[i]
            tf == f
            r == Result_filter(heap, s, f)
            t == OnTry(r.h, tv, Try_filter(r.h, tv.x, tf))
        IN  Pair("filter", s, tv, f, NoneV, NoneV, r, t, <<>>, <<>>)

PairFlatMap ==
    \E i \in RRecv, f \in Fns1 \cup {"success"} :
        LET s == renv[i].x
            tv == tenv[i]
            tf == IF f = "success" THEN "trysuccess" ELSE f
            r == Result_flat_map(heap, s, f)
            t == OnTry(r.h, tv, Try_flat_map(r.h, tv.x, tf))
        IN  Pair("flat_map", s, tv, f, NoneV, NoneV, r, t, <<>>, <<>>)

PairGetOrElse ==
    \E i \in RRecv, f \in Fns0 :
        LET s == renv[i].x
            tv == tenv[i]
            tf == f
            r == Result_get_or_else(heap, s, f)
            t == OnTry(r.h, tv, Try_get_or_else(r.h, tv.x, tf))
        IN  Pair("get_or_else", s, tv, f, NoneV, NoneV, r, t, <<>>, <<>>)

PairMap ==
    \E i \in RRecv, f \in Fns1 :
        LET s == renv[i].x
            tv == tenv[i]
            tf == f
            r == Result_map(heap, s, f)
            t == OnTry(r.h, tv, Try_map(r.h, tv.x, tf))
        IN  Pair("map", s, tv, f, NoneV, NoneV, r, t, <<>>, <<>>)

PairRecover ==
    \E i \in RRecv, f \in Fns1 :
        LET s == renv[i].x
            tv == tenv[i]
            tf == f
            r == Result_recover(heap, s, f)
            t == OnTry(r.h, tv, Try_recover(r.h, tv.x, tf))
        IN  Pair("recover", s, tv, f, NoneV, NoneV, r, t, <<>>, <<>>)

PairGetOrDefault ==
    \E i \in RRecv, a \in ArgSel :
        LET s == renv[i].x
            tv == tenv[i]
            r == Result_get_or_default(heap, s, RArg(a))
            t == OnTry(r.h, tv, Try_get_or_default(r.h, tv.x, TArg(a)))
        IN  Pair("get_or_default", s, tv, "", RArg(a), TArg(a), r, t, <<>>, <<>>)

PairOrElse ==
    \E i \in RRecv, j \in RRecv :
        LET s == renv[i].x
            tv == tenv[i]
            r == Result_or_else(heap, s, renv[j])
            t == OnTry(r.h, tv, Try_or_else(r.h, tv.x, tenv[j]))
        IN  Pair("or_else", s, tv, "", renv[j], tenv[j], r, t, <<>>, <<>>)

PairEq ==
    \E i \in RRecv, a \in ArgSel :
        LET s == renv[i].x
            tv == tenv[i]
            r == Result_eq(heap, s, RArg(a))
            t == PyEq(r.h, tv, TArg(a))
        IN  Pair("eq", s, tv, "", RArg(a), TArg(a), r, t, <<>>, <<>>)

PairNe ==
    \E i \in RRecv, a \in ArgSel :
        LET s == renv[i].x
            tv == tenv[i]
            r == Result_ne(heap, s, RArg(a))
            t == PyNot(PyEq(r.h, tv, TArg(a)))
        IN  Pair("ne", s, tv, "", RArg(a), TArg(a), r, t, <<>>, <<>>)

PairHash ==
    \E i \in RRecv :
        LET s == renv[i].x
            tv == tenv[i]
            r == Result_hash(heap, s)
            t == PyHash(r.h, tv)
        IN  Pair("hash", s, tv, "", NoneV, NoneV, r, t, <<>>, <<>>)

PairList ==
    \E i \in RRecv :
        LET s == renv[i].x
            tv == tenv[i]
            r == Result_list(heap, NewGen(s))
            t == IF IsInstance(r.r.h, tv, TryClasses)
                 THEN Try_list(r.r.h, NewGen(tv.x))
                 ELSE [g |-> NewGen(0),
                       r |-> RaiseNew(r.r.h, "TypeError", "object is not iterable", 0)]
        IN  Pair("list", s, tv, "", NoneV, NoneV, r.r, t.r, r.g.out, t.g.out)

NextTry ==
    \/ PairException \/ PairSuccess \/ PairFailure
    \/ PairIsFailed \/ PairIsSuccess \/ PairError \/ PairResult \/ PairFilter
    \/ PairFlatMap \/ PairFlatten \/ PairGetOrDefault \/ PairGetOrElse
    \/ PairMap \/ PairOrElse \/ PairRecover \/ PairToOption
    \/ PairEq \/ PairNe \/ PairHash \/ PairList

SpecTry == Init /\ [][NextTry]_vars

----------------------------------------------------------------------------
(* What the claims speak of *)

IsException(h, v) == IsInstance(h, v, ExcClasses)

\* The call raised a new exception of class c.
RaisedNew(h, l, c) ==
    /\ l.out.kind = "raise"
    /\ IsInstance(h, l.out.v, {c})
    /\ l.out.v.x > l.pre

\* The objects the call allocated.
Made(h, l) == (l.pre + 1)..Len(h)

\* v in the run against result.py and w in the run against try.py are the
\* same: the same number, the same variant holding the same, an exception of
\* the same kind.
RECURSIVE Corr(_, _, _)
Corr(h, v, w) ==
    IF IsRef(v) /\ IsRef(w)
    THEN LET a == h[v.x]
             b == h[w.x]
         IN  CASE a.cls = "Success" -> b.cls = "TrySuccess" /\ Corr(h, a.val, b.val)
               [] a.cls = "Failure" -> b.cls = "TryFailure" /\ Corr(h, a.val, b.val)
               [] a.cls = "Just" -> b.cls = "Just" /\ Corr(h, a.val, b.val)
               [] OTHER -> a.cls = b.cls /\ a.msg = b.msg
    ELSE IF v.t = "idhash" /\ w.t = "idhash" /\ v.x > 0 /\ w.x > 0
         THEN Corr(h, Ref(v.x), Ref(w.x))
    ELSE v = w

CorrItems(h, vs, ws) ==
    /\ Len(vs) = Len(ws)
    /\ \A k \in 1..Len(vs) : Corr(h, vs[k], ws[k])

\* w is a failure wrapper of result.py holding e.
IsFailedResult(h, w, e) ==
    /\ IsInstance(h, w, ResultClasses)
    /\ Result_failed(h, w.x)
    /\ Result_error(h, w.x).out = Ret(e)

\* w is a failure wrapper of try.py holding e.
IsFailedTry(h, w, e) ==
    /\ IsInstance(h, w, TryClasses)
    /\ Try_failed(h, w.x)
    /\ Try_error(h, w.x).out = Ret(e)

\* C1 (result.py alone): Failure(x) raises a new TypeError and makes no
\* wrapper when x is no exception, and gives a failure wrapper holding x when
\* it is one.
ResultFailureConstruction ==
    last.op = "Failure" =>
        IF IsException(heap, last.arg)
        THEN last.out.kind = "ret" /\ IsFailedResult(heap, last.out.v, last.arg)
        ELSE /\ RaisedNew(heap, last, "TypeError")
             /\ \A a \in Made(heap, last) : heap[a].cls \in ExcClasses

\* C1: in result.py and in try.py alike, Failure(x) raises a type error and
\* makes no wrapper when x is no exception, and gives a wrapper that is
\* failed and whose error is x when it is one.
FailureConstruction ==
    /\ ResultFailureConstruction
    /\ last.op = "Failure" =>
        IF IsException(heap, tlast.arg)
        THEN tlast.out.kind = "ret" /\ IsFailedTry(heap, tlast.out.v, tlast.arg)
        ELSE /\ RaisedNew(heap, tlast, "TypeError")
             /\ \A a \in Made(heap, last) : heap[a].cls \in ExcClasses

\* C2: every call of the script gives the same in the run against try.py as
\* in the run against result.py: both return or both raise, and the values,
\* the exceptions and the elements iterated are the same.
TryMatchesResult ==
    /\ tlast.out.kind = last.out.kind
    /\ Corr(heap, last.out.v, tlast.out.v)
    /\ CorrItems(heap, last.items, tlast.items)

\* w is Just(v) up to ==, or Nothing when the receiver failed.
IsOptionOf(h, w, succeeded, v) ==
    IF succeeded
    THEN /\ IsInstance(h, w, {"Just"})
         /\ PyEq(h, h[w.x].val, v).out = Ret(BoolV(TRUE))
    ELSE IsInstance(h, w, {"Nothing"})

\* C8 (result.py alone): to_option returns Just(v) for Success(v) and Nothing
\* for Failure(err), and raises nothing.
ResultToOption ==
    last.op = "to_option" =>
        /\ last.out.kind = "ret"
        /\ IsOptionOf(heap, last.out.v, heap[last.self].cls = "Success",
                      heap[last.self].val)

\* C8: in result.py and in try.py alike, to_option of what Success(v) built
\* is Just(v) and to_option of what Failure(err) built is Nothing, and it
\* raises nothing.
ToOptionConverts ==
    /\ ResultToOption
    /\ last.op = "to_option" =>
        /\ tlast.out.kind = "ret"
        /\ IsOptionOf(heap, tlast.out.v, heap[last.self].cls = "Success",
                      IF tlast.self > 0 THEN heap[tlast.self].val ELSE NoneV)

\* x and y are equal: the same number, wrappers of the same variant holding
\* equal contents, or one and the same object.
RECURSIVE Same(_, _, _)
Same(h, x, y) ==
    IF IsNum(x) /\ IsNum(y) THEN x.x = y.x
    ELSE IF IsInstance(h, x, OptionClasses \cup ResultClasses) /\ IsRef(y)
         THEN /\ h[x.x].cls = h[y.x].cls
              /\ h[x.x].cls = "Nothing" \/ Same(h, h[x.x].val, h[y.x].val)
    ELSE x = y

\* What the predicate p says of v, when it says anything.
Holds(p, v) == p = "always" \/ (p = "pos" /\ IsNum(v) /\ v.x > 0)
Fails(p, v) == p = "never" \/ (p = "pos" /\ IsNum(v) /\ v.x <= 0)

\* C3: filter of Success(v) returns the receiver when p(v) is true; when p(v)
\* is false, and for every Failure(e), it returns a new Failure holding a new
\* 'Predicate failed' error, which is not e and makes the result unequal to
\* the receiver; p is not called on a Failure and nothing is raised.
FilterLaw ==
    (last.op = "filter" /\ last.self \in Results(heap)) =>
        LET s == heap[last.self]
            w == last.out.v
        IN  IF s.cls = "Success" /\ Holds(last.fn, s.val)
            THEN /\ last.out = Ret(Ref(last.self))
                 /\ Len(heap) = last.pre
            ELSE (s.cls = "Failure" \/ Fails(last.fn, s.val)) =>
                 /\ last.out.kind = "ret"
                 /\ IsInstance(heap, w, {"Failure"})
                 /\ w.x > last.pre
                 /\ IsInstance(heap, heap[w.x].val, {"ValueError"})
                 /\ heap[w.x].val.x > last.pre
                 /\ heap[heap[w.x].val.x].msg = "Predicate failed"
                 /\ Result_eq(heap, w.x, Ref(last.self)).out = Ret(BoolV(FALSE))
                 /\ s.cls = "Failure" =>
                        /\ heap[w.x].val # s.val
                        /\ last.calls = 0

\* C3's case: a Failure was filtered.
FilterOfFailure ==
    /\ last.op = "filter"
    /\ last.self \in Results(heap)
    /\ heap[last.self].cls = "Failure"
    /\ last.out.kind = "ret"
    /\ last.out.v # Ref(last.self)

\* C4: result of Failure(err) raises err itself and result of Success(v)
\* returns v; error of Success(v) raises a new TypeError, which is neither v
\* nor the error of any Failure, and error of Failure(err) returns err.
AccessorAsymmetry ==
    (last.op \in {"result", "error"} /\ last.self \in Results(heap)) =>
        LET s == heap[last.self]
        IN  CASE last.op = "result" /\ s.cls = "Failure" ->
                    last.out = Raise(s.val) /\ Len(heap) = last.pre
              [] last.op = "result" /\ s.cls = "Success" -> last.out = Ret(s.val)
              [] last.op = "error" /\ s.cls = "Failure" -> last.out = Ret(s.val)
              [] last.op = "error" /\ s.cls = "Success" ->
                    /\ RaisedNew(heap, last, "TypeError")
                    /\ last.out.v # s.val
                    /\ \A a \in Results(heap) :
                           heap[a].cls = "Failure" => heap[a].val # last.out.v

\* C4's case: the result of a Failure was read.
ResultOfFailure ==
    /\ last.op = "result"
    /\ last.self \in Results(heap)
    /\ heap[last.self].cls = "Failure"
    /\ last.out.kind = "raise"

\* C5: a == b is true exactly when a and b are both Failure with equal errors
\* or both Success with equal results, a != b is its negation, and neither
\* raises.
EqualityLaw ==
    (/\ last.op \in {"eq", "ne"}
     /\ last.self \in Results(heap)
     /\ IsInstance(heap, last.arg, ResultClasses)) =>
        LET a == heap[last.self]
            b == heap[last.arg.x]
            equal == \/ /\ a.cls = "Failure"
                        /\ b.cls = "Failure"
                        /\ Same(heap, a.val, b.val)
                     \/ /\ a.cls = "Success"
                        /\ b.cls = "Success"
                        /\ Same(heap, a.val, b.val)
        IN  last.out = Ret(BoolV(IF last.op = "eq" THEN equal ELSE ~equal))

\* C5's case: two Failures holding different errors were compared.
FailuresCompared ==
    /\ last.op = "eq"
    /\ last.self \in Results(heap)
    /\ IsInstance(heap, last.arg, {"Failure"})
    /\ heap[last.self].cls = "Failure"
    /\ heap[last.self].val # heap[last.arg.x].val
    /\ last.out = Ret(BoolV(FALSE))

\* a holds an option: a Just whose value is an Option.
Nested(h, a) == h[a].cls = "Just" /\ IsInstance(h, h[a].val, OptionClasses)

\* a and the options nested in it, level by level.
RECURSIVE Chain(_, _)
Chain(h, a) == {a} \cup (IF Nested(h, a) THEN Chain(h, h[a].val.x) ELSE {})

\* C6: flatten returns the innermost option of the receiver's chain, which is
\* Nothing or a Just of a value that is no Option; it is the receiver when
\* nothing is nested, flatten of it is itself, and flatten neither raises
\* nor makes an object.
FlattenLaw ==
    (last.op = "flatten" /\ last.self \in Options(heap)) =>
        /\ last.out.kind = "ret"
        /\ IsInstance(heap, last.out.v, OptionClasses)
        /\ last.out.v.x \in Chain(heap, last.self)
        /\ ~Nested(heap, last.out.v.x)
        /\ ~Nested(heap, last.self) => last.out = Ret(Ref(last.self))
        /\ Option_flatten(heap, last.out.v.x).out = last.out
        /\ Len(heap) = last.pre

\* C6's case: an option nested two deep was flattened.
DeepFlatten ==
    /\ last.op = "flatten"
    /\ last.self \in Options(heap)
    /\ Nested(heap, last.self)
    /\ Nested(heap, heap[last.self].val.x)
    /\ last.out.kind = "ret"

\* What f gives for v, when it returns.
FnValue(f, v) == IF f = "id" THEN v ELSE IntV(0)

\* C7: map of Just(v) is a Just of f(v), f having been called once; map of
\* Nothing is the receiver, f not having been called; and map of the
\* identity gives an option == to the receiver.
MapLaw ==
    (last.op = "map" /\ last.self \in Options(heap)) =>
        LET s == heap[last.self]
            w == last.out.v
        IN  IF s.cls = "Nothing"
            THEN /\ last.out = Ret(Ref(last.self))
                 /\ last.calls = 0
                 /\ Len(heap) = last.pre
            ELSE last.fn \in {"id", "const0"} =>
                 /\ last.out.kind = "ret"
                 /\ IsInstance(heap, w, {"Just"})
                 /\ Same(heap, heap[w.x].val, FnValue(last.fn, s.val))
                 /\ last.calls = 1
                 /\ last.fn = "id" =>
                        /\ Option_eq(heap, w.x, Ref(last.self)).out = Ret(BoolV(TRUE))
                        /\ Option_eq(heap, last.self, w).out = Ret(BoolV(TRUE))

\* C7's case: a Just was mapped.
MapOfJust ==
    /\ last.op = "map"
    /\ last.self \in Options(heap)
    /\ heap[last.self].cls = "Just"
    /\ last.fn = "const0"
    /\ last.out.kind = "ret"

\* What iterating a gives.
Elements(h, a) == IF h[a].cls \in {"Just", "Success"} THEN <<h[a].val>> ELSE <<>>

\* C9: a generator over Just(v) or Success(v) yields v once and then ends,
\* one over Nothing or a Failure ends at once; next() raises nothing and
\* makes nothing; two generators over one wrapper yield the same, however
\* their steps interleave.
IterationLaw ==
    /\ \A i \in 1..Len(iters) :
           LET g == iters[i]
           IN  /\ g.pc = "start" => g.out = <<>>
               /\ g.pc = "yielded" => Len(g.out) = 1
               /\ g.pc # "start" => g.out = Elements(heap, g.obj)
    /\ \A i, j \in 1..Len(iters) :
           (iters[i].obj = iters[j].obj /\ iters[i].pc = "done" /\ iters[j].pc = "done")
               => iters[i].out = iters[j].out
    /\ last.op = "next" =>
           /\ last.out.kind \in {"ret", "stop"}
           /\ Len(heap) = last.pre
           /\ last.out.kind = "ret" =>
                  /\ iters[last.arg.x].pc = "yielded"
                  /\ last.out.v = heap[last.self].val
           /\ last.out.kind = "stop" => iters[last.arg.x].pc = "done"

\* C9's case: a second generator over a wrapper has run to its end while the
\* first is still at its yield.
InterleavedIterations ==
    \E i, j \in 1..Len(iters) :
        /\ i < j
        /\ iters[i].obj = iters[j].obj
        /\ iters[i].pc = "yielded"
        /\ iters[j].pc = "done"
        /\ iters[j].out # <<>>

\* The objects a holds, at any depth.
RECURSIVE Contained(_, _)
Contained(h, a) ==
    IF IsRef(h[a].val) THEN {h[a].val.x} \cup Contained(h, h[a].val.x) ELSE {}

\* No step changes an object there is.
Frame ==
    \A a \in 1..Len(heap) : a <= Len(heap') /\ heap'[a] = heap[a]

\* A call returns a raw value, the receiver, the argument, something the
\* receiver holds or a new object.
ReturnsOwn ==
    (last.out.kind = "ret" /\ IsRef(last.out.v)) =>
        \/ last.out.v.x > last.pre
        \/ last.out.v.x = last.self
        \/ last.out.v = last.arg
        \/ last.self > 0 /\ last.out.v.x \in Contained(heap, last.self)

====
